---------------------------- MODULE Spec2Model ----------------------------
(***************************************************************************)
(* A model of moon_days: the tithi computation, the per-day event          *)
(* detection, the full-range scan and the CSV comparison of                *)
(* generator/generator.py, and the one-year table of                       *)
(* one_year_table/year_moon_days.py.                                       *)
(*                                                                         *)
(* The ephemeris library (sun and moon longitude, sunrise) is outside the  *)
(* repository: its answers are inputs, drawn with \E.  Calendar dates are  *)
(* day offsets from START_DATE; None (Python's None) is -1.                *)
(***************************************************************************)
EXTENDS Integers, Sequences, FiniteSets, TLC

(***************************************************************************)
(* Bounds of the model.                                                    *)
(***************************************************************************)
\* Days in the scanned range START_DATE..END_DATE (27,394 in the program).
NumDays == 6
\* The largest advance of the sunrise tithi from one day to the next that the
\* ephemeris is taken to produce in the comparison of the cities.
MaxStep == 2
\* Days of the year in the one-year table (365 in the program).
YearDays == 5
\* Floating point: significant bits of a float, and fraction bits of the
\* smallest float step (a degree is 2^FracBits steps).
MantBits == 7
FracBits == 1

(***************************************************************************)
(* Program constants.                                                      *)
(***************************************************************************)
None == -1
START_DATE == 0
TITHI_DEG == 12
PURNIMA == 15
AMAVASYA == 30
KIND_PURNIMA == 0
KIND_AMAVASYA == 1
KIND_KSHAYA_PURNIMA == 2
KIND_KSHAYA_AMAVASYA == 3

Kinds == {KIND_PURNIMA, KIND_AMAVASYA, KIND_KSHAYA_PURNIMA, KIND_KSHAYA_AMAVASYA}
Tithis == 1..30

(***************************************************************************)
(* Floating point.  A float is an integer number of steps of 2^-FracBits   *)
(* degree with at most MantBits significant bits; the result of an         *)
(* addition or subtraction is the exact result rounded to the nearest      *)
(* float, ties to the even one (IEEE 754, which Python's float is).        *)
(***************************************************************************)
RECURSIVE Pow2(_)
Pow2(n) == IF n <= 0 THEN 1 ELSE 2 * Pow2(n - 1)

RECURSIVE BitLen(_)
BitLen(v) == IF v = 0 THEN 0 ELSE 1 + BitLen(v \div 2)

Abs(v) == IF v < 0 THEN -v ELSE v

Range(f) == {f[i] : i \in DOMAIN f}

\* Steps in one degree.
Unit == Pow2(FracBits)

\* The distance between neighbouring floats at magnitude v.
Ulp(v) == LET n == BitLen(Abs(v))
          IN  IF n > MantBits THEN Pow2(n - MantBits) ELSE 1

Representable(v) == v % Ulp(v) = 0

RoundNearestEven(v) ==
    LET a  == Abs(v)
        s  == Ulp(a)
        lo == (a \div s) * s
        r  == a - lo
        up == \/ 2 * r > s
              \/ 2 * r = s /\ (lo \div s) % 2 = 1
        m  == IF up THEN lo + s ELSE lo
    IN  IF v < 0 THEN -m ELSE m

FloatSub(a, b) == RoundNearestEven(a - b)
FloatAdd(a, b) == RoundNearestEven(a + b)

\* C's fmod: exact, with the sign of x.
Fmod(x, y) == IF x < 0 THEN -((-x) % y) ELSE x % y

\* Python's x % y on floats, y > 0: fmod, then y is added to a negative
\* remainder (a float addition, which rounds).
PyFloatMod(x, y) ==
    LET mod == Fmod(x, y)
    IN  IF mod # 0 /\ mod < 0 THEN FloatAdd(mod, y) ELSE mod

\* Python's x // y on floats, 0 <= x, 0 < y: floor((x - fmod(x, y)) / y).
PyFloatFloorDiv(x, y) ==
    LET mod == Fmod(x, y)
    IN  FloatSub(x, mod) \div y

\* The longitudes the ephemeris may return: the floats in [0, 360).
Longitudes == {v \in 0..(360 * Unit - 1) : Representable(v)}

(***************************************************************************)
(* tithi_at_jd, from the two longitudes swe.calc_ut returns for jd.        *)
(***************************************************************************)
tithi_at_jd(sunLon, moonLon) ==
    LET diff == PyFloatMod(FloatSub(moonLon, sunLon), 360 * Unit)
    IN  PyFloatFloorDiv(diff, TITHI_DEG * Unit) + 1

(***************************************************************************)
(* Event kinds.                                                            *)
(***************************************************************************)
base_tithi(kind) ==
    IF kind \in {KIND_PURNIMA, KIND_KSHAYA_PURNIMA} THEN PURNIMA
    ELSE IF kind \in {KIND_AMAVASYA, KIND_KSHAYA_AMAVASYA} THEN AMAVASYA
    ELSE "ValueError"

is_kshaya(kind) == kind \in {KIND_KSHAYA_PURNIMA, KIND_KSHAYA_AMAVASYA}

kind_label(kind) ==
    IF kind \in {KIND_PURNIMA, KIND_KSHAYA_PURNIMA} THEN "PURNIMA"
    ELSE IF kind \in {KIND_AMAVASYA, KIND_KSHAYA_AMAVASYA} THEN "AMAVASYA"
    ELSE "ValueError"

(***************************************************************************)
(* detect_event, from the tithi t0 at the day's sunrise and the tithi t1   *)
(* at the next day's sunrise.                                              *)
(***************************************************************************)
\* A slip: range(1, diff + 1), which counts the next day's tithi as skipped.
SkippedThroughNext(t0, t1) ==
    LET diff == (t1 - t0) % 30
    IN  {((t0 + i - 1) % 30) + 1 : i \in 1..diff}

SkippedTithis(t0, t1) ==
    LET diff == (t1 - t0) % 30
    IN  {((t0 + i - 1) % 30) + 1 : i \in 1..(diff - 1)}

\* A slip: the skip is classified before the direct observation.
detect_event_skip_first(t0, t1) ==
    LET diff == (t1 - t0) % 30
    IN  IF diff > 1 /\ PURNIMA \in SkippedTithis(t0, t1) THEN KIND_KSHAYA_PURNIMA
        ELSE IF diff > 1 /\ AMAVASYA \in SkippedTithis(t0, t1) THEN KIND_KSHAYA_AMAVASYA
        ELSE IF t0 = PURNIMA THEN KIND_PURNIMA
        ELSE IF t0 = AMAVASYA THEN KIND_AMAVASYA
        ELSE None

detect_event(t0, t1) ==
    IF t0 = PURNIMA THEN KIND_PURNIMA
    ELSE IF t0 = AMAVASYA THEN KIND_AMAVASYA
    ELSE LET diff == (t1 - t0) % 30
         IN  IF diff > 1 /\ PURNIMA \in SkippedTithis(t0, t1)
                 THEN KIND_KSHAYA_PURNIMA
             ELSE IF diff > 1 /\ AMAVASYA \in SkippedTithis(t0, t1)
                 THEN KIND_KSHAYA_AMAVASYA
             ELSE None

(***************************************************************************)
(* Dates.  A date is its offset in days from START_DATE, 1 January 2026;   *)
(* fmt_date prints it as "DD Mon YYYY".                                    *)
(***************************************************************************)
END_DATE == START_DATE + NumDays - 1

MONTHS == <<"Jan", "Feb", "Mar", "Apr", "May", "Jun",
            "Jul", "Aug", "Sep", "Oct", "Nov", "Dec">>

IsLeap(y) == (y % 4 = 0 /\ y % 100 # 0) \/ y % 400 = 0

DaysInMonth(y, m) ==
    IF m = 2 THEN (IF IsLeap(y) THEN 29 ELSE 28)
    ELSE IF m \in {4, 6, 9, 11} THEN 30 ELSE 31

\* The calendar date n days after the first day of month m of year y.
RECURSIVE DateFrom(_, _, _)
DateFrom(y, m, n) ==
    IF n < DaysInMonth(y, m) THEN [year |-> y, month |-> m, day |-> n + 1]
    ELSE IF m = 12 THEN DateFrom(y + 1, 1, n - DaysInMonth(y, m))
    ELSE DateFrom(y, m + 1, n - DaysInMonth(y, m))

CalendarDate(date) == DateFrom(2026, 1, date - START_DATE)

TwoDigits(n) == IF n < 10 THEN "0" \o ToString(n) ELSE ToString(n)

fmt_date(e) ==
    LET c == CalendarDate(e.date)
    IN  TwoDigits(c.day) \o " " \o MONTHS[c.month] \o " " \o ToString(c.year)

(***************************************************************************)
(* The cities: the master city first, as in CITIES.                        *)
(***************************************************************************)
CityNames == <<"Mysuru", "Moscow">>
MASTER_CITY == CityNames[1]
OtherCities == [i \in 1..(Len(CityNames) - 1) |-> CityNames[i + 1]]

(***************************************************************************)
(* generate_moon_days: the pieces of the loop body.                        *)
(***************************************************************************)
\* A slip: the event is built after d was advanced.
MoonEventNextDay(index, date, k) == [index |-> index, date |-> date + 1, kind |-> k]

MoonEvent(index, date, k) == [index |-> index, date |-> date, kind |-> k]

\* A slip: the loop runs one day past END_DATE.
InRangePastEnd(date) == date <= END_DATE + 1

\* while d <= END_DATE
InRange(date) == date <= END_DATE

\* A slip: one elapsed day is enough.
ShouldAppendNextDay(last, date) == last = None \/ date - last >= 1

\* last_date is None or (d - last_date).days >= 2
ShouldAppend(last, date) == last = None \/ date - last >= 2

\* A slip: indices counted from 1.
NextIndexFromOne(evs) == Len(evs) + 1

\* The index of the event about to be appended.
NextIndex(evs) == Len(evs)

\* The tithi s steps after tithi t, in 1..30.
Advance(t, s) == ((t + s - 1) % 30) + 1

(***************************************************************************)
(* generate_csv: the pieces.                                               *)
(***************************************************************************)
\* {e.index: e for e in events}
IndexMap(evs) ==
    [i \in {evs[k].index : k \in DOMAIN evs} |->
        evs[CHOOSE k \in DOMAIN evs :
                /\ evs[k].index = i
                /\ \A j \in DOMAIN evs : evs[j].index = i => j <= k]]

\* The kshaya marker: the reference mark U+203B in the program, written "*" here.
KSHAYA_MARK == "*"

Label(ref) ==
    IF is_kshaya(ref.kind) THEN kind_label(ref.kind) \o " " \o KSHAYA_MARK
    ELSE kind_label(ref.kind)

\* A slip: the same-date test comes before the kshaya test.
CellSameDateFirst(ref, map) ==
    IF ref.index \notin DOMAIN map THEN ""
    ELSE LET ev == map[ref.index]
         IN  IF fmt_date(ev) = fmt_date(ref) THEN ""
             ELSE IF is_kshaya(ev.kind) THEN KSHAYA_MARK
             ELSE fmt_date(ev)

\* The cell of one other city in the row of master event ref.
Cell(ref, map) ==
    IF ref.index \notin DOMAIN map THEN ""
    ELSE LET ev == map[ref.index]
         IN  IF is_kshaya(ev.kind) THEN KSHAYA_MARK
             ELSE IF fmt_date(ev) = fmt_date(ref) THEN ""
             ELSE fmt_date(ev)

CsvRowOf(ref, all) ==
    <<Label(ref), fmt_date(ref)>>
        \o [i \in DOMAIN OtherCities |-> Cell(ref, IndexMap(all[OtherCities[i]]))]

(***************************************************************************)
(* The one-year table (year_moon_days.py).  Its dates are offsets from     *)
(* 1 January of YEAR, 2026.                                                *)
(***************************************************************************)
YearStart == START_DATE
YearEnd == YearStart + YearDays - 1

\* The sunrise tithis the ephemeris is taken to produce in the one-year table.
SunriseTithis == {14, PURNIMA, AMAVASYA}

\* t in (AMAVASYA, PURNIMA)
is_moon_day(t) == t \in {AMAVASYA, PURNIMA}

\* sorted(results)
RECURSIVE Sorted(_)
Sorted(S) ==
    IF S = {} THEN <<>>
    ELSE LET m == CHOOSE x \in S : \A y \in S : x <= y
         IN  <<m>> \o Sorted(S \ {m})

\* date.isoformat()
isoformat(date) ==
    LET c == CalendarDate(date)
    IN  ToString(c.year) \o "-" \o TwoDigits(c.month) \o "-" \o TwoDigits(c.day)

\* A slip: the later date is tried before the earlier one.
DeltasLaterFirst == <<0, 1, -1, 2, -2>>

\* for delta in (0, -1, 1, -2, 2)
DELTAS == <<0, -1, 1, -2, 2>>

\* The first candidate date.d + delta, in the order of DELTAS, that is a moon
\* day of the city; None when there is none.
Found(date, days) ==
    LET hits == {i \in DOMAIN DELTAS : date + DELTAS[i] \in days}
    IN  IF hits = {} THEN None
        ELSE date + DELTAS[CHOOSE i \in hits : \A j \in hits : i <= j]

YearCell(date, days) ==
    LET found == Found(date, days)
    IN  IF found = None THEN "NaN"
        ELSE IF found = date THEN ""
        ELSE isoformat(found)

YearRowOf(date, all) ==
    <<isoformat(date)>> \o [i \in DOMAIN OtherCities |-> YearCell(date, all[i + 1])]

VARIABLES
    pc,           \* where the running program is
    sun, moon,    \* tithi_at_jd: the longitudes of the sun and the moon
    tithi,        \* tithi_at_jd: the result
    t0, t1,       \* detect_event: the tithis at the two sunrises
    kind,         \* the result of detect_event (generate_moon_days' kind)
    city,         \* generate_csv: the position in CityNames of the city scanned
    d,            \* generate_moon_days: the day being scanned
    last_date,    \* generate_moon_days: the date of the last appended event
    events,       \* generate_moon_days: the event list
    sr,           \* the tithi at the sunrise of day d in the scanned city
    city_events,  \* generate_csv: the event list of each scanned city
    ref_i,        \* generate_csv: the position in ref_events of the next row
    rows,         \* generate_csv: the rows written after the header
    results,      \* moon_days_for_city: the moon days found so far
    master_days,  \* year table: the master city's moon days, sorted
    master_sun,   \* year table: the master city's sunrise tithis, by day (history)
    city_days,    \* year table: the moon days of each other city
    md_i          \* year table: the position in master_days of the next row

tithiVars == <<sun, moon, tithi>>
detectVars == <<t0, t1>>
scanVars == <<city, d, last_date, events, sr, kind>>
csvVars == <<city_events, ref_i, rows>>
yearVars == <<results, master_days, master_sun, city_days, md_i>>
vars == <<pc, sun, moon, tithi, t0, t1, kind,
          city, d, last_date, events, sr, city_events, ref_i, rows,
          results, master_days, master_sun, city_days, md_i>>

IdleTithi == sun = 0 /\ moon = 0 /\ tithi = None
IdleDetect == t0 = None /\ t1 = None
IdleScan ==
    /\ city = 1 /\ d = START_DATE /\ last_date = None /\ events = <<>>
    /\ sr = None /\ kind = None
IdleCsv ==
    /\ city_events = [i \in DOMAIN CityNames |-> <<>>]
    /\ ref_i = 1
    /\ rows = <<>>
IdleYear ==
    /\ results = {}
    /\ master_days = <<>>
    /\ master_sun = <<>>
    /\ city_days = [i \in DOMAIN CityNames |-> {}]
    /\ md_i = 1

(***************************************************************************)
(* tithi_at_jd applied to any pair of longitudes.                          *)
(***************************************************************************)
InitTithi ==
    /\ pc = "tithi_in"
    /\ sun \in Longitudes
    /\ moon \in Longitudes
    /\ tithi = None
    /\ IdleDetect /\ IdleScan /\ IdleCsv /\ IdleYear

TithiAtJd ==
    /\ pc = "tithi_in"
    /\ tithi' = tithi_at_jd(sun, moon)
    /\ pc' = "tithi_out"
    /\ UNCHANGED <<sun, moon, detectVars, scanVars, csvVars, yearVars>>

NextTithi == TithiAtJd

SpecTithi == InitTithi /\ [][NextTithi]_vars

(***************************************************************************)
(* detect_event applied to any pair of sunrise tithis.                     *)
(***************************************************************************)
InitDetect ==
    /\ pc = "detect_in"
    /\ t0 \in Tithis
    /\ t1 \in Tithis
    /\ kind = None
    /\ city = 1 /\ d = START_DATE /\ last_date = None /\ events = <<>> /\ sr = None
    /\ IdleTithi /\ IdleCsv /\ IdleYear

DetectEvent ==
    /\ pc = "detect_in"
    /\ kind' = detect_event(t0, t1)
    /\ pc' = "detect_out"
    /\ UNCHANGED <<t0, t1, city, d, last_date, events, sr, tithiVars, csvVars, yearVars>>

NextDetect == DetectEvent

SpecDetect == InitDetect /\ [][NextDetect]_vars

(***************************************************************************)
(* generate_moon_days: one iteration of the loop.  The tithi at the next   *)
(* day's sunrise is the input; it is steps ahead of today's.               *)
(***************************************************************************)
ScanDay(steps) ==
    /\ pc = "scan"
    /\ InRange(d)
    /\ \E s \in steps :
        LET next == Advance(sr, s)
            k    == detect_event(sr, next)
            add  == k # None /\ ShouldAppend(last_date, d)
        IN  /\ events' = IF add THEN Append(events, MoonEvent(NextIndex(events), d, k))
                         ELSE events
            /\ last_date' = IF add THEN d ELSE last_date
            /\ kind' = k
            /\ sr' = next
    /\ d' = d + 1
    /\ UNCHANGED <<pc, city, tithiVars, detectVars, csvVars, yearVars>>

(***************************************************************************)
(* One call of generate_moon_days, for any sunrise tithis.                 *)
(***************************************************************************)
InitScan ==
    /\ pc = "scan"
    /\ city = 1
    /\ d = START_DATE
    /\ last_date = None
    /\ events = <<>>
    /\ sr \in Tithis
    /\ kind = None
    /\ IdleTithi /\ IdleDetect /\ IdleCsv /\ IdleYear

ScanAnyDay == ScanDay(0..29)

\* return events
ScanReturn ==
    /\ pc = "scan"
    /\ ~InRange(d)
    /\ pc' = "done"
    /\ UNCHANGED <<tithiVars, detectVars, scanVars, csvVars, yearVars>>

NextScan == ScanAnyDay \/ ScanReturn

SpecScan == InitScan /\ [][NextScan]_vars /\ WF_vars(NextScan)

(***************************************************************************)
(* generate_csv: every city is scanned, the master first, then one row is  *)
(* written per master event.                                               *)
(***************************************************************************)
Init ==
    /\ pc = "scan"
    /\ city = 1
    /\ d = START_DATE
    /\ last_date = None
    /\ events = <<>>
    /\ sr \in Tithis
    /\ kind = None
    /\ IdleTithi /\ IdleDetect /\ IdleCsv /\ IdleYear

ScanCityDay == ScanDay(0..MaxStep)

\* city_events[name] = events, and the next city's scan starts.
NextCity ==
    /\ pc = "scan"
    /\ ~InRange(d)
    /\ city < Len(CityNames)
    /\ city_events' = [city_events EXCEPT ![city] = events]
    /\ city' = city + 1
    /\ d' = START_DATE
    /\ last_date' = None
    /\ events' = <<>>
    /\ sr' \in Tithis
    /\ kind' = None
    /\ UNCHANGED <<pc, ref_i, rows, tithiVars, detectVars, yearVars>>

\* The last city's events are stored; the rows follow.
LastCity ==
    /\ pc = "scan"
    /\ ~InRange(d)
    /\ city = Len(CityNames)
    /\ city_events' = [city_events EXCEPT ![city] = events]
    /\ pc' = "csv"
    /\ UNCHANGED <<ref_i, rows, scanVars, tithiVars, detectVars, yearVars>>

ByName(all) == [n \in {CityNames[i] : i \in DOMAIN CityNames} |->
                   all[CHOOSE i \in DOMAIN CityNames : CityNames[i] = n]]

\* ref_events = city_events[MASTER_CITY]
ref_events == ByName(city_events)[MASTER_CITY]

\* for ref in ref_events: one row
CsvRow ==
    /\ pc = "csv"
    /\ ref_i <= Len(ref_events)
    /\ rows' = Append(rows, CsvRowOf(ref_events[ref_i], ByName(city_events)))
    /\ ref_i' = ref_i + 1
    /\ UNCHANGED <<pc, city_events, scanVars, tithiVars, detectVars, yearVars>>

CsvDone ==
    /\ pc = "csv"
    /\ ref_i > Len(ref_events)
    /\ pc' = "done"
    /\ UNCHANGED <<city_events, ref_i, rows, scanVars, tithiVars, detectVars, yearVars>>

Next == ScanCityDay \/ NextCity \/ LastCity \/ CsvRow \/ CsvDone

Spec == Init /\ [][Next]_vars

(***************************************************************************)
(* The one-year table: moon_days_for_city for the master and then for each *)
(* other city, then one row per master moon day.                           *)
(***************************************************************************)
InitYear ==
    /\ pc = "year_scan"
    /\ city = 1
    /\ d = YearStart
    /\ rows = <<>>
    /\ last_date = None /\ events = <<>> /\ sr = None /\ kind = None
    /\ city_events = [i \in DOMAIN CityNames |-> <<>>]
    /\ ref_i = 1
    /\ IdleTithi /\ IdleDetect /\ IdleYear

\* One iteration of moon_days_for_city's loop; the sunrise tithi is the input.
YearScanDay ==
    /\ pc = "year_scan"
    /\ d <= YearEnd
    /\ \E t \in SunriseTithis :
        /\ results' = IF is_moon_day(t) THEN results \cup {d} ELSE results
        /\ master_sun' = IF city = 1 THEN Append(master_sun, t) ELSE master_sun
    /\ d' = d + 1
    /\ UNCHANGED <<pc, city, rows, master_days, city_days, md_i,
                   last_date, events, sr, kind, city_events, ref_i,
                   tithiVars, detectVars>>

\* return sorted(results): the master's days are kept as the list, another
\* city's as a set; the next city follows.
YearStore ==
    /\ master_days' = IF city = 1 THEN Sorted(results) ELSE master_days
    /\ city_days' = IF city = 1 THEN city_days
                    ELSE [city_days EXCEPT ![city] = Range(Sorted(results))]

YearNextCity ==
    /\ pc = "year_scan"
    /\ d > YearEnd
    /\ city < Len(CityNames)
    /\ YearStore
    /\ city' = city + 1
    /\ d' = YearStart
    /\ results' = {}
    /\ UNCHANGED <<pc, rows, md_i, master_sun, last_date, events, sr, kind, city_events,
                   ref_i, tithiVars, detectVars>>

YearLastCity ==
    /\ pc = "year_scan"
    /\ d > YearEnd
    /\ city = Len(CityNames)
    /\ YearStore
    /\ pc' = "year_csv"
    /\ UNCHANGED <<city, d, results, master_sun, rows, md_i, last_date, events,
                   sr, kind, city_events, ref_i, tithiVars, detectVars>>

\* for d in master_days: one row
YearRow ==
    /\ pc = "year_csv"
    /\ md_i <= Len(master_days)
    /\ rows' = Append(rows, YearRowOf(master_days[md_i], city_days))
    /\ md_i' = md_i + 1
    /\ UNCHANGED <<pc, city, d, results, master_days, master_sun,
                   city_days, last_date, events, sr, kind, city_events, ref_i,
                   tithiVars, detectVars>>

YearDone ==
    /\ pc = "year_csv"
    /\ md_i > Len(master_days)
    /\ pc' = "year_done"
    /\ UNCHANGED <<city, d, rows, yearVars, last_date, events, sr, kind,
                   city_events, ref_i, tithiVars, detectVars>>

NextYear == YearScanDay \/ YearNextCity \/ YearLastCity \/ YearRow \/ YearDone

SpecYear == InitYear /\ [][NextYear]_vars

(***************************************************************************)
(* Claims.                                                                 *)
(***************************************************************************)
Last(evs) == evs[Len(evs)]

\* C1: any two consecutive events of the list are at least two days apart,
\* at every point of the scan.
ConsecutiveTwoDaysApart ==
    \A k \in 1..(Len(events) - 1) : events[k + 1].date - events[k].date >= 2

\* A detection was suppressed (the day before d detected an event and the last
\* appended event is the day before that), with two events already in the list.
SuppressedAfterTwoEvents ==
    /\ Len(events) >= 2
    /\ kind # None
    /\ last_date = d - 2

\* C2: the event at list position k (from 0) has index k, at every point of
\* the scan.
IndicesContiguous ==
    \A k \in 1..Len(events) : events[k].index = k - 1

\* Three events are in the list and the detection after them was suppressed.
ThreeEventsAndSuppression ==
    /\ Len(events) = 3
    /\ kind # None
    /\ last_date = d - 2
    /\ pc = "scan"

\* C3: event dates strictly increase with the index and lie in
\* START_DATE..END_DATE.
Chronological ==
    /\ \A j, k \in 1..Len(events) :
          events[j].index < events[k].index => events[j].date < events[k].date
    /\ \A k \in 1..Len(events) :
          START_DATE <= events[k].date /\ events[k].date <= END_DATE

\* The scan is over with events on the first and the last day of the range.
EventsOnFirstAndLastDay ==
    /\ pc = "done"
    /\ Len(events) >= 2
    /\ events[1].date = START_DATE
    /\ Last(events).date = END_DATE

\* C4: detect_event returns Purnima when today's tithi is 15 and Amavasya when
\* it is 30, whatever the next day's tithi.
DirectObservationFirst ==
    pc = "detect_out" =>
        /\ t0 = PURNIMA => kind = KIND_PURNIMA
        /\ t0 = AMAVASYA => kind = KIND_AMAVASYA

\* The tithis strictly between a and b in cyclic order.
StrictlyBetween(a, b) ==
    {t \in Tithis : 0 < (t - a) % 30 /\ (t - a) % 30 < (b - a) % 30}

AdvancedMoreThanOne(a, b) == (b - a) % 30 > 1

\* Today is Purnima and the tithi jumps over Amavasya before the next sunrise:
\* the result is Purnima, not Kshaya-Amavasya.
PurnimaWithAmavasyaSkipped ==
    /\ pc = "detect_out"
    /\ t0 = PURNIMA
    /\ AMAVASYA \in StrictlyBetween(t0, t1)
    /\ kind = KIND_PURNIMA

\* C5 as stated: with t0 neither 15 nor 30, Kshaya-Purnima if the tithi
\* advanced by more than one step and 15 was skipped, Kshaya-Amavasya if it
\* advanced by more than one step and 30 was skipped, no event otherwise; the
\* result is one of the four kinds or no event.
KshayaAsStated ==
    (pc = "detect_out" /\ t0 \notin {PURNIMA, AMAVASYA}) =>
        LET jump == AdvancedMoreThanOne(t0, t1)
            over15 == jump /\ PURNIMA \in StrictlyBetween(t0, t1)
            over30 == jump /\ AMAVASYA \in StrictlyBetween(t0, t1)
        IN  /\ over15 => kind = KIND_KSHAYA_PURNIMA
            /\ over30 => kind = KIND_KSHAYA_AMAVASYA
            /\ (~over15 /\ ~over30) => kind = None
            /\ kind \in Kinds \cup {None}

\* C5 amended: Kshaya-Amavasya only if 30 was skipped and 15 was not; a jump
\* over both 15 and 30 is Kshaya-Purnima.
KshayaPurnimaFirst ==
    (pc = "detect_out" /\ t0 \notin {PURNIMA, AMAVASYA}) =>
        LET jump == AdvancedMoreThanOne(t0, t1)
            over15 == jump /\ PURNIMA \in StrictlyBetween(t0, t1)
            over30 == jump /\ AMAVASYA \in StrictlyBetween(t0, t1)
        IN  /\ over15 => kind = KIND_KSHAYA_PURNIMA
            /\ (over30 /\ ~over15) => kind = KIND_KSHAYA_AMAVASYA
            /\ (~over15 /\ ~over30) => kind = None
            /\ kind \in Kinds \cup {None}

\* The tithi jumped over both 15 and 30.
JumpOverBoth ==
    /\ pc = "detect_out"
    /\ t0 \notin {PURNIMA, AMAVASYA}
    /\ PURNIMA \in StrictlyBetween(t0, t1)
    /\ AMAVASYA \in StrictlyBetween(t0, t1)
    /\ kind = KIND_KSHAYA_PURNIMA

\* The exact value the tithi is defined as: floor(((moon - sun) mod 360) / 12) + 1.
ExactTithi(sunLon, moonLon) ==
    (((moonLon - sunLon) % (360 * Unit)) \div (TITHI_DEG * Unit)) + 1

\* C6: tithi_at_jd yields a tithi in 1..30 that equals
\* floor(((moon - sun) mod 360) / 12) + 1, for every pair of longitudes.
TithiInRangeAndExact ==
    pc = "tithi_out" => tithi \in Tithis /\ tithi = ExactTithi(sun, moon)

\* One step of the scan as C7 states it.
ScanStepAsStated ==
    IF pc = "scan" /\ START_DATE <= d /\ d <= END_DATE
    THEN /\ d' = d + 1
         /\ kind' = detect_event(sr, sr')
         /\ LET elapsed == events = <<>> \/ d - Last(events).date >= 2
            IN  IF kind' # None /\ elapsed
                THEN /\ Len(events') = Len(events) + 1
                     /\ SubSeq(events', 1, Len(events)) = events
                     /\ Last(events').date = d
                     /\ Last(events').kind = kind'
                ELSE events' = events
    ELSE d' = d /\ events' = events

\* C7: the scan starts at START_DATE, visits each day of the range once and
\* in order, appends an event exactly when one is detected and no event was
\* appended yet or two days have elapsed since the last appended one, leaves
\* the list alone otherwise, and terminates after END_DATE.
ScanVisitsEveryDay ==
    /\ d = START_DATE /\ events = <<>>
    /\ [][ScanStepAsStated]_vars
    /\ <>(pc = "done" /\ d = END_DATE + 1)

\* The scan is over; the last day detected an event that was suppressed.
ScanOverLastDaySuppressed ==
    /\ pc = "done"
    /\ d = END_DATE + 1
    /\ kind # None
    /\ last_date = END_DATE - 1

\* The events of the other city at position c of OtherCities.
EventsOf(c) == city_events[c + 1]

\* The events of a list that carry index i.
WithIndex(evs, i) == {e \in Range(evs) : e.index = i}

RowLabelOK(row, ref) ==
    /\ row[1] = IF ref.kind \in {KIND_KSHAYA_PURNIMA, KIND_KSHAYA_AMAVASYA}
                THEN kind_label(ref.kind) \o " " \o KSHAYA_MARK
                ELSE kind_label(ref.kind)
    /\ row[2] = fmt_date(ref)
    /\ Len(row) = 2 + Len(OtherCities)

\* A cell as C8 states it: blank with the city's event of that index on the
\* master's date, the kshaya marker with that event kshaya, or its date.
CellAsStated(cell, ref, same) ==
    \E ev \in same :
        \/ cell = "" /\ ev.date = ref.date
        \/ cell = KSHAYA_MARK /\ is_kshaya(ev.kind)
        \/ cell = fmt_date(ev) /\ ev.date # ref.date

\* A cell as the program writes it: blank also when the city has no event of
\* that index, the marker for a kshaya event whatever its date.
CellAmended(cell, ref, same) ==
    \/ same = {} /\ cell = ""
    \/ \E ev \in same :
          \/ is_kshaya(ev.kind) /\ cell = KSHAYA_MARK
          \/ ~is_kshaya(ev.kind) /\ ev.date = ref.date /\ cell = ""
          \/ ~is_kshaya(ev.kind) /\ ev.date # ref.date /\ cell = fmt_date(ev)

\* One row per master event, in index order, with the master's label and
\* date, then one cell per other city.
RowsMatchMaster(amended) ==
    /\ Len(rows) = Len(ref_events)
    /\ \A i \in 1..Len(rows) :
          LET ref == ref_events[i]
          IN  /\ ref.index = i - 1
              /\ RowLabelOK(rows[i], ref)
              /\ \A c \in DOMAIN OtherCities :
                    LET cell == rows[i][2 + c]
                        same == WithIndex(EventsOf(c), ref.index)
                    IN  IF amended THEN CellAmended(cell, ref, same)
                        ELSE CellAsStated(cell, ref, same)

\* C8 as stated: one row per master event, in index order, with the master's
\* label and date, then per other city a cell that is blank (same date), the
\* kshaya marker (kshaya event) or the differing date of the city's event of
\* the same index.
CsvRowsAsStated ==
    pc = "done" => RowsMatchMaster(FALSE)

\* C8 amended: as stated, and the cell is also blank when the city has no
\* event with the master event's index.
CsvRowsAmended ==
    pc = "done" => RowsMatchMaster(TRUE)

\* Two rows were written: the city's only event is kshaya and falls on the
\* first master event's date (the marker), and it has none for the second
\* master event (blank).
CsvKshayaThenMissing ==
    /\ pc = "done"
    /\ Len(rows) = 2
    /\ Len(EventsOf(1)) = 1
    /\ EventsOf(1)[1].date = ref_events[1].date
    /\ rows[1][3] = KSHAYA_MARK
    /\ rows[2][3] = ""

\* C9: events of the master and of another city that carry the same index are
\* of the same lunar phase.
SamePhaseByIndex ==
    pc \in {"csv", "done"} =>
        \A c \in DOMAIN OtherCities :
            \A m \in Range(ref_events) :
                \A e \in WithIndex(EventsOf(c), m.index) :
                    base_tithi(e.kind) = base_tithi(m.kind)

\* The moon days of a city within two days of date.
Near(date, days) == {x \in days : Abs(x - date) <= 2}

\* The nearest of them, the earlier one of two at the same distance.
Nearest(date, days) ==
    CHOOSE x \in Near(date, days) :
        \A y \in Near(date, days) :
            \/ Abs(x - date) < Abs(y - date)
            \/ Abs(x - date) = Abs(y - date) /\ x <= y

\* C10: the table has one row per master moon day (a day whose sunrise tithi
\* at the master city is 15 or 30), in order; the cell of another city is
\* blank if the city has a moon day on that day, otherwise the city's nearest
\* moon day within two days (the earlier one on a tie), and "NaN" exactly
\* when the city has no moon day within two days.
YearTableNearest ==
    pc = "year_done" =>
        LET md == {x \in YearStart..YearEnd :
                      master_sun[x - YearStart + 1] \in {PURNIMA, AMAVASYA}}
        IN  /\ Range(master_days) = md
            /\ Len(rows) = Cardinality(md)
            /\ \A i \in 1..Len(rows) :
                  LET day == master_days[i]
                  IN  /\ \A j \in 1..Len(rows) : i < j => day < master_days[j]
                      /\ rows[i][1] = isoformat(day)
                      /\ Len(rows[i]) = 1 + Len(OtherCities)
                      /\ \A c \in DOMAIN OtherCities :
                            LET days == city_days[c + 1]
                                cell == rows[i][1 + c]
                            IN  /\ cell = "NaN" <=> Near(day, days) = {}
                                /\ day \in days => cell = ""
                                /\ (day \notin days /\ Near(day, days) # {}) =>
                                      cell = isoformat(Nearest(day, days))

\* The table is written; a master moon day has the city's moon days two days
\* before and two days after it and none nearer, and the cell is the earlier.
YearTieEarlierWins ==
    /\ pc = "year_done"
    /\ \E i \in 1..Len(rows) :
          LET day == master_days[i]
              days == city_days[2]
          IN  /\ Near(day, days) = {day - 2, day + 2}
              /\ rows[i][2] = isoformat(day - 2)
=============================================================================
